---- MODULE Spec2Model ----
(***************************************************************************)
(* Model of the agent-evaluation test harness                              *)
(* (tests/test_agent_evaluation.py): the phase pipeline of main(), the     *)
(* supervised local MLflow server (spawn, health polling, termination)     *)
(* and the exit-registered cleanup().                                      *)
(*                                                                         *)
(* The state is the Config record threaded through the phases, the         *)
(* process environment, the filesystem locations the run touches, the      *)
(* external processes (server, the two claude invocations) and the         *)
(* position of the single thread of control.  External collaborators       *)
(* (commands, the server, the tracking store, the filesystem) answer       *)
(* nondeterministically with the outcomes the code distinguishes.          *)
(*                                                                         *)
(* Init is the state after main() has parsed its arguments, built the      *)
(* Config and registered cleanup with atexit (lines 738-751).              *)
(***************************************************************************)
EXTENDS Integers, Sequences, FiniteSets, TLC

\* Python's None, for the Optional fields of Config and unset environment variables.
None == "None"

\* Exit codes (lines 48-52).
EXIT_SUCCESS == 0
EXIT_SETUP_FAILED == 1
EXIT_EXECUTION_FAILED == 2
EXIT_VERIFICATION_FAILED == 3

\* The exit status of the interpreter when main() is left by an uncaught
\* exception: sys.exit(main()) is never reached (line 796).
EXIT_UNCAUGHT == 1

\* max_attempts of the health polling loop (line 291).
max_attempts == 30

\* Number of liveness checks after SIGTERM in cleanup: range(10) (line 174).
term_checks == 10

\* Largest artifact count the tracking store answers with in the model.
MaxCount == 2

\* Last second of the wall clock in the model.
MaxClock == 1

\* The five phases, in the order main() calls them (lines 762-786).
PhaseOrder == <<"Prerequisites", "Setup", "SmokeTest", "Execution", "Verification">>

Phases == {PhaseOrder[i] : i \in 1..Len(PhaseOrder)}

\* The pid of the process Popen returns in start_mlflow_server (line 288).
ServerPid == "pid-server"

\* Values of --tracking-uri / MLFLOW_TRACKING_URI at start (lines 732-736, 746):
\* absent, empty, an http endpoint, a Databricks profile.
ExternalHttp == "http://external"

ExternalDatabricks == "databricks://PROFILE"

LocalUri == "http://127.0.0.1:port"

TrackingUris == {None, "", ExternalHttp, ExternalDatabricks}

\* Variant of Truthy: only None is false.
Truthy_EmptyCounts(v) == v # None

\* Python truthiness of an Optional[str]: None and "" are false.
Truthy(v) == v # None /\ v # ""

\* str.startswith("databricks://") on the tracking URIs of the model (lines 387, 407).
IsDatabricksUri(v) == v = ExternalDatabricks

\* Filesystem locations.  WorkDir is the directory mkdtemp creates under
\* <repo>/test-runs (lines 336-339); the session directory is the one the claude
\* CLI keeps under ~/.claude/projects (lines 150-152).
TestRunsDir == "repo/test-runs"

WorkDir == "repo/test-runs/agent-eval-test-X"

ProjectDir == "repo/test-runs/agent-eval-test-X/mlflow-agent"

SkillInstallDir == "repo/test-runs/agent-eval-test-X/mlflow-agent/.claude/skills/agent-evaluation"

\* Variant of MlflowDataDir: the server's data directory is kept in the repository.
MlflowDataDir_InRepo == "repo/mlflow-data"

MlflowDataDir == "repo/test-runs/agent-eval-test-X/mlflow-data"

ServerLogFile == "repo/test-runs/agent-eval-test-X/mlflow-server.log"

ClaudeOutputLog == "repo/test-runs/agent-eval-test-X/claude_output.log"

SessionDestDir == "repo/test-runs/agent-eval-test-X/claude-sessions"

SessionDir == "home/.claude/projects/encoded-project-path"

\* The locations that lie under the working directory (what shutil.rmtree removes).
UnderWorkDir == {WorkDir, ProjectDir, SkillInstallDir, MlflowDataDir, ServerLogFile,
                 ClaudeOutputLog, SessionDestDir}

VARIABLES
  pc,            \* position of the single thread of control
  config,        \* the Config dataclass (lines 55-76), runtime fields included
  environ,       \* os.environ: MLFLOW_TRACKING_URI, MLFLOW_EXPERIMENT_ID
  fs,            \* the filesystem locations (of those named above) that exist
  server,        \* the spawned server process: none, starting, serving, exited
  port,          \* who listens on 127.0.0.1:mlflow_port: free, ours, other
  attempt,       \* health probes performed so far by start_mlflow_server
  polling,       \* the polling loop: what each probe met, and how the loop ended
  checks,        \* liveness checks performed so far by cleanup
  killCalls,     \* every os.kill call made, in order: <<pid, signal>>
  invocation,    \* the two claude invocations: none, running, ended
  outcome,       \* how each claude invocation ended
  started,       \* the phases started so far, in order
  phaseResult,   \* what each phase returned: none, pass, fail
  verification,  \* the results dictionary the verification script builds
  queried,       \* what the tracking store answered to each query of that script
  exitCode,      \* {} while the process runs, {code} once main() has returned/raised
  cleanupRuns,   \* number of times the atexit machinery has called cleanup
  cleanupLog,    \* what each step of cleanup did, in order
  cleanupFault,  \* TRUE once cleanup has been left by an unhandled exception
  clock,         \* the wall clock, in whole seconds
  peerName,      \* the experiment name another harness run has produced, if any
  signalled,     \* the signal that ended the run from outside, if any
  firstLeft,     \* what a first call of cleanup left behind, when it is called again
  importCheck,   \* a call of check_import_order: its file, its pattern, what it returned
  uriSetup       \* a call of configure_tracking_uri: its inputs and what it returned

vars == <<pc, config, environ, fs, server, port, attempt, polling, checks, killCalls,
          invocation, outcome, started, phaseResult, verification, queried, exitCode,
          cleanupRuns, cleanupLog, cleanupFault, clock, peerName, signalled, firstLeft,
          importCheck, uriSetup>>

\* Groups used in UNCHANGED clauses.
procVars == <<server, port, attempt, polling, checks, killCalls, invocation, outcome>>

peerVars == <<clock, peerName, signalled, firstLeft>>
scriptVars == <<importCheck, uriSetup>>

\* Variant of NewConfig: the experiment fields are filled in at construction.
NewConfig_PresetExperiment(uri, keep) ==
  [tracking_uri |-> uri, keep_workdir |-> keep, work_dir |-> None,
   experiment_name |-> "preset-name", experiment_id |-> "preset-id", log_file |-> None,
   mlflow_server_pid |-> None, use_external_server |-> FALSE]

\* Config as constructed in main() (lines 740-748) with the dataclass defaults of the
\* runtime fields (lines 68-73).
NewConfig(uri, keep) ==
  [tracking_uri |-> uri, keep_workdir |-> keep, work_dir |-> None,
   experiment_name |-> None, experiment_id |-> None, log_file |-> None,
   mlflow_server_pid |-> None, use_external_server |-> FALSE]

\* The polling loop of start_mlflow_server before it is entered: probes lists, for
\* each iteration made, whether the probe succeeded and whether the spawned
\* process had exited by then; result is how the function ended, and answeredBy
\* who was listening on the port when a probe succeeded.
NotPolling == [probes |-> <<>>, result |-> "none", answeredBy |-> "nobody"]

NoResults == [datasets |-> [found |-> 0, pass |-> FALSE],
              scorers |-> [found |-> 0, pass |-> FALSE],
              traces |-> [found |-> 0, pass |-> FALSE]]

\* The answers of the tracking store before the verification script has asked.
NotQueried == [c \in {"datasets", "scorers", "traces"} |-> [raised |-> FALSE, count |-> 0]]

(***************************************************************************)
(* agent-evaluation/scripts/utils/tracing_utils.py: check_import_order.    *)
(***************************************************************************)

\* Longest file given to check_import_order, in lines.
MaxLines == 3

\* The value of autolog_line and first_import_line while they are None (lines
\* 97-98).  Line numbers start at 1 (line 100), so 0 is as false as None is
\* in the tests of lines 104 and 113-122.
NoLine == 0

\* What check_import_order looks at in a line: whether it contains "autolog()"
\* (line 101), whether it contains both "from" and "import" (line 104), and
\* whether re.search(import_pattern, line) finds the caller's pattern (line 106).
LineKinds == [autolog : BOOLEAN, fromimport : BOOLEAN, matches : BOOLEAN]

\* content.split("\n") (line 95): at least one line, even for an empty file.
RECURSIVE FilesOfLength(_)
FilesOfLength(n) ==
  IF n = 0 THEN {<<>>}
  ELSE {Append(f, l) : f \in FilesOfLength(n - 1), l \in LineKinds}

Files == UNION {FilesOfLength(n) : n \in 1..MaxLines}

\* The import_pattern argument: absent, empty, or a regular expression.
ImportPatterns == {None, "", "pattern"}

\* Lines 104-111: line l is taken as the import once autolog_line is set.
IsImport(l, import_pattern) ==
  l.fromimport /\ (Truthy(import_pattern) => l.matches)

\* The loop of lines 100-111 from line i on, autolog_line being a so far: the
\* values of autolog_line and first_import_line when the loop is left.
RECURSIVE ScanLines(_, _, _, _)
ScanLines(lines, import_pattern, i, a) ==
  IF i > Len(lines)
  THEN [autolog_line |-> a, first_import_line |-> NoLine]
  ELSE LET autolog_line == IF lines[i].autolog THEN i ELSE a
       IN  IF autolog_line # NoLine /\ IsImport(lines[i], import_pattern)
           THEN [autolog_line |-> autolog_line, first_import_line |-> i]
           ELSE ScanLines(lines, import_pattern, i + 1, autolog_line)

\* check_import_order(file_path, import_pattern) (lines 82-127) on a file whose
\* lines are 'lines'; readable is FALSE when read_text raises (lines 94, 126-127).
check_import_order(lines, import_pattern, readable) ==
  IF ~readable
  THEN [is_correct |-> TRUE, message |-> "Could not check import order"]
  ELSE LET r == ScanLines(lines, import_pattern, 1, NoLine)
       IN  IF r.autolog_line # NoLine /\ r.first_import_line # NoLine
           THEN IF r.autolog_line < r.first_import_line
                THEN [is_correct |-> TRUE, message |-> "Autolog before imports"]
                ELSE [is_correct |-> FALSE, message |-> "Autolog after imports"]
           ELSE IF r.autolog_line # NoLine
                THEN [is_correct |-> TRUE, message |-> "Autolog found"]
                ELSE [is_correct |-> FALSE, message |-> "Autolog not found"]

NotReturned == [is_correct |-> FALSE, message |-> "not returned"]

NoImportCheck ==
  [lines |-> <<>>, import_pattern |-> None, readable |-> TRUE, called |-> FALSE,
   returned |-> NotReturned]

(***************************************************************************)
(* agent-evaluation/scripts/setup_mlflow.py: the tracking URI.             *)
(***************************************************************************)

\* Most profiles 'databricks auth profiles' lists.
MaxProfiles == 2

ProfileNames == {"DEFAULT", "dev", "prod"}

\* A row of the table 'databricks auth profiles' prints: Name, Host, Valid.  A
\* profile without a host has an empty Host column and cannot be valid.
ProfileRows ==
  {r \in [name : ProfileNames, host : {"", "https://host"}, valid : {"YES", "NO"}] :
     r.host = "" => r.valid = "NO"}

RECURSIVE TablesOfLength(_)
TablesOfLength(n) ==
  IF n = 0 THEN {<<>>}
  ELSE {Append(t, r) : t \in TablesOfLength(n - 1), r \in ProfileRows}

\* The tables of the model: a profile name is listed once.
ProfileTables ==
  {t \in UNION {TablesOfLength(n) : n \in 0..MaxProfiles} :
     \A i, j \in 1..Len(t) : t[i].name = t[j].name => i = j}

\* How subprocess.run of lines 58-60 ends: the command prints its table, exits
\* non-zero (CalledProcessError), or is not installed (FileNotFoundError).
CliOutcomes ==
  [status : {"ok"}, rows : ProfileTables]
    \cup [status : {"failed", "missing"}, rows : {<<>>}]

\* line.split() (line 67): the columns of a printed line that are not empty.
Parts(r) == SelectSeq(<<r.name, r.host, r.valid>>, LAMBDA col : col # "")

HeaderParts == <<"Name", "Host", "Valid">>

\* result.stdout.strip().split("\n") (line 61), each line already split.
StdoutLines(rows) == <<HeaderParts>> \o [i \in 1..Len(rows) |-> Parts(rows[i])]

\* str.upper() on the words of the Valid column (line 71).
Upper(w) ==
  CASE w \in {"YES", "Yes", "yes"} -> "YES"
    [] w \in {"NO", "No", "no"} -> "NO"
    [] OTHER -> w

\* detect_databricks_profiles() (lines 51-76).
detect_databricks_profiles(cli) ==
  IF cli.status # "ok" THEN <<>>
  ELSE LET body == Tail(StdoutLines(cli.rows))
           kept == SelectSeq(body, LAMBDA parts :
                               Len(parts) >= 3 /\ Upper(parts[Len(parts)]) = "YES")
       IN  [i \in 1..Len(kept) |-> kept[i][1]]

SqliteUri == "sqlite:///mlflow.db"

\* Variant of auto_detect_tracking_uri: the first profile wins over DEFAULT.
auto_detect_tracking_uri_FirstProfile(existing, cli) ==
  IF Truthy(existing) THEN existing
  ELSE LET profiles == detect_databricks_profiles(cli)
       IN  IF profiles # <<>> THEN "databricks://" \o profiles[1] ELSE SqliteUri

\* auto_detect_tracking_uri() (lines 79-113); existing is os.getenv of line 89.
auto_detect_tracking_uri(existing, cli) ==
  IF Truthy(existing) THEN existing
  ELSE LET profiles == detect_databricks_profiles(cli)
       IN  IF profiles # <<>>
           THEN IF \E i \in 1..Len(profiles) : profiles[i] = "DEFAULT"
                THEN "databricks://DEFAULT"
                ELSE "databricks://" \o profiles[1]
           ELSE SqliteUri

\* configure_tracking_uri(args_uri) (lines 116-136).
configure_tracking_uri(args_uri, existing, cli) ==
  IF Truthy(args_uri) THEN args_uri ELSE auto_detect_tracking_uri(existing, cli)

\* --tracking-uri as argparse hands it over (lines 26-29, 281) and the value of
\* MLFLOW_TRACKING_URI in the environment: absent, empty, or a URI.
ArgsUris == {None, "", "http://cli:5000"}
EnvUris == {None, "", "http://env:5000"}

NoUriSetup ==
  [args_uri |-> None, existing |-> None, cli |-> [status |-> "missing", rows |-> <<>>],
   called |-> FALSE, returned |-> None]

\* The state when main() reaches its first phase (line 762): the port is free or
\* already taken by some other server; the session directory of an earlier claude
\* run cannot exist, because the working directory's name is fresh.
HarnessInit ==
  /\ pc = "check_prerequisites"
  /\ \E uri \in TrackingUris, keep \in BOOLEAN : config = NewConfig(uri, keep)
  /\ \E u \in {None, config.tracking_uri}, e \in {None, "stale-id"} :
       environ = [MLFLOW_TRACKING_URI |-> u, MLFLOW_EXPERIMENT_ID |-> e]
  /\ fs = {}
  /\ server = "none"
  /\ port \in {"free", "other"}
  /\ attempt = 0
  /\ polling = NotPolling
  /\ checks = 0
  /\ killCalls = <<>>
  /\ invocation = [i \in {"smoke", "exec"} |-> "none"]
  /\ outcome = [i \in {"smoke", "exec"} |-> "none"]
  /\ started = <<>>
  /\ phaseResult = [p \in Phases |-> "none"]
  /\ verification = NoResults
  /\ queried = NotQueried
  /\ exitCode = {}
  /\ cleanupRuns = 0
  /\ cleanupLog = <<>>
  /\ cleanupFault = FALSE
  /\ clock = 0
  /\ peerName = None
  /\ signalled = None
  /\ firstLeft = [fs |-> {}, kills |-> 0]

\* The harness calls neither of the two scripts' functions.
Init ==
  /\ HarnessInit
  /\ importCheck = NoImportCheck
  /\ uriSetup = NoUriSetup

(***************************************************************************)
(* main(): sequencing of the phases and the exit code (lines 762-792).     *)
(***************************************************************************)

\* Variant of FailureExit: a Smoke Test failure returns the execution code.
FailureExit_SmokeAsExecution(p) ==
  CASE p = "Prerequisites" -> EXIT_SETUP_FAILED
    [] p = "Setup" -> EXIT_SETUP_FAILED
    [] p = "SmokeTest" -> EXIT_EXECUTION_FAILED
    [] p = "Execution" -> EXIT_EXECUTION_FAILED
    [] p = "Verification" -> EXIT_VERIFICATION_FAILED

\* The code main() returns when phase p reports failure (lines 763-786).
FailureExit(p) ==
  CASE p = "Prerequisites" -> EXIT_SETUP_FAILED
    [] p = "Setup" -> EXIT_SETUP_FAILED
    [] p = "SmokeTest" -> EXIT_SETUP_FAILED
    [] p = "Execution" -> EXIT_EXECUTION_FAILED
    [] p = "Verification" -> EXIT_VERIFICATION_FAILED

\* The position at which each phase function is entered.
EntryPc(p) ==
  CASE p = "Prerequisites" -> "check_prerequisites"
    [] p = "Setup" -> "setup_workdir"
    [] p = "SmokeTest" -> "smoke_start"
    [] p = "Execution" -> "exec_start"
    [] p = "Verification" -> "verify"

PhaseIndex(p) == CHOOSE i \in 1..Len(PhaseOrder) : PhaseOrder[i] = p

\* Variant of MainContinues: the phase's result is not tested.
MainContinues_IgnoresFailure(p, ok) == p # "Verification"

\* Whether main() goes on to the next phase when phase p has returned ok
\* (lines 763-786); otherwise it returns its exit code.
MainContinues(p, ok) == ok /\ p # "Verification"

\* Variant of AtExitRegistered: the handler is registered after the first phase.
AtExitRegistered_AfterPrerequisites(p) == p # "Prerequisites"

\* Whether cleanup is registered with atexit when main() is left during or after
\* phase p: it is registered before the first phase (lines 750-751).
AtExitRegistered(p) == TRUE

\* The position after main() is left in phase p: the exit code is handed to
\* sys.exit (line 796) and the registered handler runs before the process ends.
LeaveMain(p) == IF AtExitRegistered(p) THEN "atexit" ELSE "exited"

\* Phase p returns ok (TRUE/FALSE) to main().
Return(p, ok) ==
  /\ phaseResult' = [phaseResult EXCEPT ![p] = IF ok THEN "pass" ELSE "fail"]
  /\ IF MainContinues(p, ok)
       THEN /\ pc' = EntryPc(PhaseOrder[PhaseIndex(p) + 1])
            /\ exitCode' = exitCode
       ELSE /\ pc' = LeaveMain(p)
            /\ exitCode' = {IF ok THEN EXIT_SUCCESS ELSE FailureExit(p)}

\* Phase p is left by an exception no handler of the harness catches: the
\* interpreter prints the traceback, runs the atexit handlers and exits.
Raise(p) ==
  /\ phaseResult' = [phaseResult EXCEPT ![p] = "raised"]
  /\ pc' = LeaveMain(p)
  /\ exitCode' = {EXIT_UNCAUGHT}

\* Entry of phase function p.
Enter(p) == started' = Append(started, p)

(***************************************************************************)
(* Phase 1: check_prerequisites (lines 200-245).                           *)
(***************************************************************************)

\* is_port_available (lines 134-141): bind succeeds iff nobody listens.
is_port_available == port = "free"

\* commands: claude, git and uv are all on PATH; skill: the skill directory and
\* its SKILL.md exist.
check_prerequisites ==
  /\ pc = "check_prerequisites"
  /\ Enter("Prerequisites")
  /\ \E commands \in BOOLEAN, skill \in BOOLEAN :
       IF ~commands \/ ~skill
         THEN /\ config' = config
              /\ Return("Prerequisites", FALSE)
         ELSE IF Truthy(config.tracking_uri)
           THEN /\ config' = [config EXCEPT !.use_external_server = TRUE]
                /\ Return("Prerequisites", TRUE)
           ELSE /\ config' = config
                /\ Return("Prerequisites", is_port_available)
  /\ UNCHANGED <<environ, fs, procVars, verification, queried, cleanupRuns, cleanupLog, cleanupFault>>
  /\ UNCHANGED <<peerVars, scriptVars>>

(***************************************************************************)
(* The spawned server process and the port, as the harness observes them.  *)
(***************************************************************************)

\* The spawned server binds the port and starts answering.
ServerBinds ==
  /\ server = "starting"
  /\ port = "free"
  /\ server' = "serving"
  /\ port' = "ours"
  /\ UNCHANGED <<pc, config, environ, fs, attempt, polling, checks, killCalls, invocation, outcome,
                 started, phaseResult, verification, queried, exitCode, cleanupRuns, cleanupLog, cleanupFault>>
  /\ UNCHANGED <<peerVars, scriptVars>>

\* The spawned server process ends: it could not bind, it crashed, or it obeyed
\* a SIGTERM.  Nothing forces it to.  (Followed until the harness has exited.)
ServerExits ==
  /\ pc # "exited"
  /\ server \in {"starting", "serving"}
  /\ server' = "exited"
  /\ port' = IF port = "ours" THEN "free" ELSE port
  /\ UNCHANGED <<pc, config, environ, fs, attempt, polling, checks, killCalls, invocation, outcome,
                 started, phaseResult, verification, queried, exitCode, cleanupRuns, cleanupLog, cleanupFault>>
  /\ UNCHANGED <<peerVars, scriptVars>>

\* Some other program starts listening on the port while the harness runs.
OtherTakesPort ==
  /\ pc # "exited"
  /\ port = "free"
  /\ port' = "other"
  /\ UNCHANGED <<pc, config, environ, fs, server, attempt, polling, checks, killCalls, invocation,
                 outcome, started, phaseResult, verification, queried, exitCode, cleanupRuns, cleanupLog,
                 cleanupFault>>
  /\ UNCHANGED <<peerVars, scriptVars>>

(***************************************************************************)
(* Phase 2: setup_phase (lines 331-461) and start_mlflow_server            *)
(* (lines 248-328).                                                        *)
(***************************************************************************)

\* Lines 335-340: test-runs is created (exist_ok), then mkdtemp creates the
\* working directory under it.  Neither call is guarded.
setup_workdir ==
  /\ pc = "setup_workdir"
  /\ Enter("Setup")
  /\ \E how \in {"ok", "mkdir_raises", "mkdtemp_raises"} :
       CASE how = "ok" ->
              /\ fs' = fs \cup {TestRunsDir, WorkDir}
              /\ config' = [config EXCEPT !.work_dir = WorkDir]
              /\ pc' = "setup_install"
              /\ UNCHANGED <<phaseResult, exitCode>>
         [] how = "mkdir_raises" ->
              /\ UNCHANGED <<fs, config>>
              /\ Raise("Setup")
         [] how = "mkdtemp_raises" ->
              /\ fs' = fs \cup {TestRunsDir}
              /\ config' = config
              /\ Raise("Setup")
  /\ UNCHANGED <<environ, procVars, verification, queried, cleanupRuns, cleanupLog, cleanupFault>>
  /\ UNCHANGED <<peerVars, scriptVars>>

\* Lines 342-378: git clone, copy of the skill, uv sync, uv add mlflow.  A failing
\* command (CalledProcessError) makes setup_phase return False; shutil.copytree is
\* not guarded.
setup_install ==
  /\ pc = "setup_install"
  /\ \E how \in {"ok", "clone_failed", "copytree_raises", "sync_failed", "add_failed"} :
       CASE how = "clone_failed" ->
              /\ fs' = fs
              /\ Return("Setup", FALSE)
         [] how = "copytree_raises" ->
              /\ fs' = fs \cup {ProjectDir}
              /\ Raise("Setup")
         [] how \in {"sync_failed", "add_failed"} ->
              /\ fs' = fs \cup {ProjectDir, SkillInstallDir}
              /\ Return("Setup", FALSE)
         [] how = "ok" ->
              /\ fs' = fs \cup {ProjectDir, SkillInstallDir}
              /\ pc' = "setup_server"
              /\ UNCHANGED <<phaseResult, exitCode>>
  /\ UNCHANGED <<config, environ, procVars, started, verification, queried, cleanupRuns, cleanupLog, cleanupFault>>
  /\ UNCHANGED <<peerVars, scriptVars>>

\* Lines 380-400: which branch setup_phase takes for the server.
UsesExternalServer(c) == c.use_external_server

\* Lines 381-397: the external endpoint is adopted.  A failed install of the
\* Databricks packages is logged and does not fail the phase.
setup_external_server ==
  /\ pc = "setup_server"
  /\ UsesExternalServer(config)
  /\ environ' = [environ EXCEPT !.MLFLOW_TRACKING_URI = config.tracking_uri]
  /\ pc' = "setup_experiment"
  /\ UNCHANGED <<config, fs, procVars, started, phaseResult, verification, queried, exitCode,
                 cleanupRuns, cleanupLog, cleanupFault>>
  /\ UNCHANGED <<peerVars, scriptVars>>

\* Variant of RecordedPid: the pid of the spawned process is not recorded.
RecordedPid_Forgotten == None

\* The pid start_mlflow_server records for the process it spawned (line 288).
RecordedPid == ServerPid

\* Lines 248-288: the data directory and the server log are created, the server
\* is spawned and its pid recorded.
start_mlflow_server ==
  /\ pc = "setup_server"
  /\ ~UsesExternalServer(config)
  /\ fs' = fs \cup {MlflowDataDir, ServerLogFile}
  /\ server' = "starting"
  /\ config' = [config EXCEPT !.mlflow_server_pid = RecordedPid]
  /\ attempt' = 0
  /\ polling' = [probes |-> <<>>, result |-> "polling", answeredBy |-> "nobody"]
  /\ pc' = "health_poll"
  /\ UNCHANGED <<environ, port, checks, killCalls, invocation, outcome, started,
                 phaseResult, verification, queried, exitCode, cleanupRuns, cleanupLog, cleanupFault>>
  /\ UNCHANGED <<peerVars, scriptVars>>

\* Lines 294-300: curl exits 0 only if something listening on the port answered
\* within the 2 s timeout.
ProbeResults == IF port = "free" THEN {FALSE} ELSE BOOLEAN

\* process.poll() is not None (line 305).
ProcessDied == server = "exited"

\* Variant of PollVerdict: a successful probe does not leave the loop.
PollVerdict_NoBreak(healthy, died, n) ==
  IF died THEN "died"
  ELSE IF n = max_attempts THEN "timeout"
  ELSE "polling"

\* Variant of PollVerdict: the loop has no attempt ceiling.
PollVerdict_NoCeiling(healthy, died, n) ==
  IF healthy THEN "ready"
  ELSE IF died THEN "died"
  ELSE "polling"

\* Lines 292-318: what the n-th iteration of the polling loop decides.  The probe
\* is looked at first: success breaks out of the loop (lines 299-300); only after
\* a failed probe is process.poll() consulted (line 305); otherwise the loop
\* sleeps, and when range(max_attempts) is used up its else branch reports the
\* timeout (lines 313-318).
PollVerdict(healthy, died, n) ==
  IF healthy THEN "ready"
  ELSE IF died THEN "died"
  ELSE IF n = max_attempts THEN "timeout"
  ELSE "polling"

\* Lines 292-328: one iteration of the polling loop and, when it ends the loop,
\* the return of start_mlflow_server: success exports the local tracking URI
\* (lines 322-325), "died" and "timeout" make setup_phase return False
\* (lines 398-400).
health_poll ==
  /\ pc = "health_poll"
  /\ attempt' = attempt + 1
  /\ \E healthy \in ProbeResults :
       LET verdict == PollVerdict(healthy, ProcessDied, attempt + 1)
       IN /\ polling' = [probes |-> Append(polling.probes,
                                           [healthy |-> healthy, exited |-> ProcessDied]),
                         result |-> verdict,
                         answeredBy |-> IF healthy THEN port ELSE "nobody"]
          /\ CASE verdict = "ready" ->
                    /\ environ' = [environ EXCEPT !.MLFLOW_TRACKING_URI = LocalUri]
                    /\ pc' = "setup_experiment"
                    /\ UNCHANGED <<phaseResult, exitCode>>
               [] verdict \in {"died", "timeout"} ->
                    /\ environ' = environ
                    /\ Return("Setup", FALSE)
               [] verdict = "polling" ->
                    UNCHANGED <<environ, pc, phaseResult, exitCode>>
  /\ UNCHANGED <<config, fs, server, port, checks, killCalls, invocation, outcome, started,
                 verification, queried, cleanupRuns, cleanupLog, cleanupFault>>
  /\ UNCHANGED <<peerVars, scriptVars>>

\* datetime.now().strftime("%Y%m%d-%H%M%S") (line 403): the clock reading t, to
\* the second.
timestamp(t) == ToString(t)

\* The experiment name built from the timestamp (lines 403-425).
BaseExperimentName(t) == "agent-eval-test-" \o timestamp(t)

DatabricksExperimentName(t) == "/Users/USER/" \o BaseExperimentName(t)

ExperimentName(databricks, t) ==
  IF databricks THEN DatabricksExperimentName(t) ELSE BaseExperimentName(t)

\* What the create-experiment command prints (line 441).
CreateOutputs == {"", "Error: failed", "Traceback ...", "42"}

\* Variant of ValidExperimentId: an empty identifier is not rejected.
ValidExperimentId_AcceptsEmpty(id) == id \notin {"Error: failed", "Traceback ..."}

\* Line 443: the printed identifier is rejected when empty or an error text.
ValidExperimentId(id) == id \notin {"", "Error: failed", "Traceback ..."}

\* Lines 402-461: the experiment is named and created and its identifier exported.
\* start_mlflow_server has returned by now: its loop counter no longer exists.
\* user: the Databricks user could be detected; create: "fails" is a
\* CalledProcessError, any other value is the command's output.
setup_experiment ==
  /\ pc = "setup_experiment"
  /\ \E user \in BOOLEAN, create \in CreateOutputs \cup {"fails"} :
       LET databricks == config.use_external_server /\ IsDatabricksUri(config.tracking_uri)
           name == ExperimentName(databricks, clock)
       IN IF databricks /\ ~user
            THEN /\ UNCHANGED <<config, environ>>
                 /\ Return("Setup", FALSE)
            ELSE IF create = "fails"
              THEN /\ config' = [config EXCEPT !.experiment_name = name]
                   /\ environ' = environ
                   /\ Return("Setup", FALSE)
              ELSE /\ config' = [config EXCEPT !.experiment_name = name,
                                               !.experiment_id = create]
                   /\ IF ValidExperimentId(create)
                        THEN /\ environ' = [environ EXCEPT !.MLFLOW_EXPERIMENT_ID = create]
                             /\ Return("Setup", TRUE)
                        ELSE /\ environ' = environ
                             /\ Return("Setup", FALSE)
  /\ attempt' = 0
  /\ polling' = [polling EXCEPT !.probes = <<>>, !.answeredBy = "nobody"]
  /\ UNCHANGED <<fs, server, port, checks, killCalls, invocation, outcome, started,
                 verification, queried, cleanupRuns, cleanupLog, cleanupFault>>
  /\ UNCHANGED <<peerVars, scriptVars>>

(***************************************************************************)
(* Phase 3: test_claude_headless (lines 464-501).                          *)
(***************************************************************************)

\* The claude CLI keeps its session logs under ~/.claude/projects; an invocation
\* that ran may have written them.
SessionWrites == {{}, {SessionDir}}

\* Lines 472-488: the invocation is spawned; a failure to start is caught and
\* reported as failure.
smoke_start ==
  /\ pc = "smoke_start"
  /\ Enter("SmokeTest")
  /\ \E starts \in BOOLEAN :
       IF starts
         THEN /\ invocation' = [invocation EXCEPT !["smoke"] = "running"]
              /\ outcome' = outcome
              /\ pc' = "smoke_wait"
              /\ UNCHANGED <<phaseResult, exitCode>>
         ELSE /\ invocation' = invocation
              /\ outcome' = [outcome EXCEPT !["smoke"] = "nostart"]
              /\ Return("SmokeTest", FALSE)
  /\ UNCHANGED <<config, environ, fs, server, port, attempt, polling, checks, killCalls,
                 verification, queried, cleanupRuns, cleanupLog, cleanupFault>>
  /\ UNCHANGED <<peerVars, scriptVars>>

\* The ways the invocation can end: it runs into the 120 s timeout, or it ends
\* with no output, with output that contains "Error", with output that contains
\* the word only in another case ("error", "ERROR"), or with any other output.
SmokeEnds == {"timeout", "empty", "error_output", "error_other_case", "ok"}

\* "error" in output.lower() (line 494).
ContainsErrorAnyCase(end) == end \in {"error_output", "error_other_case"}

\* "Error" in output (line 494).
ContainsError(end) == end = "error_output"

\* Line 494: the output is taken for an error report.
ReportsError(end) == ContainsErrorAnyCase(end) /\ ContainsError(end)

\* Variant of HeadlessPasses: a timeout is not a failure.
HeadlessPasses_TimeoutPasses(end) == end # "empty" /\ ~ReportsError(end)

\* Lines 483-501: what test_claude_headless returns for each way the invocation
\* ends: a timeout and empty output fail, and so does output for which the test of
\* line 494 holds; the exit code is not looked at.
HeadlessPasses(end) == end \notin {"timeout", "empty"} /\ ~ReportsError(end)

\* subprocess.run returns or raises TimeoutExpired after killing the child.
smoke_wait ==
  /\ pc = "smoke_wait"
  /\ \E end \in SmokeEnds, wrote \in SessionWrites :
       /\ invocation' = [invocation EXCEPT !["smoke"] = "ended"]
       /\ outcome' = [outcome EXCEPT !["smoke"] = end]
       /\ fs' = fs \cup wrote
       /\ Return("SmokeTest", HeadlessPasses(end))
  /\ UNCHANGED <<config, environ, server, port, attempt, polling, checks, killCalls, started,
                 verification, queried, cleanupRuns, cleanupLog, cleanupFault>>
  /\ UNCHANGED <<peerVars, scriptVars>>

(***************************************************************************)
(* Phase 4: run_claude_code (lines 504-563).                               *)
(***************************************************************************)

\* Lines 508-555: the log file is named and opened and the invocation spawned; an
\* exception of either step is caught and reported as failure.
exec_start ==
  /\ pc = "exec_start"
  /\ Enter("Execution")
  /\ config' = [config EXCEPT !.log_file = ClaudeOutputLog]
  /\ \E how \in {"started", "open_raises", "spawn_raises"} :
       CASE how = "started" ->
              /\ fs' = fs \cup {ClaudeOutputLog}
              /\ invocation' = [invocation EXCEPT !["exec"] = "running"]
              /\ outcome' = outcome
              /\ pc' = "exec_wait"
              /\ UNCHANGED <<phaseResult, exitCode>>
         [] how = "open_raises" ->
              /\ fs' = fs
              /\ invocation' = invocation
              /\ outcome' = [outcome EXCEPT !["exec"] = "nostart"]
              /\ Return("Execution", FALSE)
         [] how = "spawn_raises" ->
              /\ fs' = fs \cup {ClaudeOutputLog}
              /\ invocation' = invocation
              /\ outcome' = [outcome EXCEPT !["exec"] = "nostart"]
              /\ Return("Execution", FALSE)
  /\ UNCHANGED <<environ, server, port, attempt, polling, checks, killCalls, verification, queried,
                 cleanupRuns, cleanupLog, cleanupFault>>
  /\ UNCHANGED <<peerVars, scriptVars>>

\* Variant of ExecutionPasses: the exit code is not tested.
ExecutionPasses_IgnoresExitCode(end) == TRUE

\* Variant of ExecutionPasses: a timeout is reported as failure.
ExecutionPasses_TimeoutFails(end) == end = "zero"

\* Lines 547-563: what run_claude_code returns for each way the invocation ends:
\* exit code 0 and a timeout both return True.
ExecutionPasses(end) == end \in {"zero", "timeout"}

exec_wait ==
  /\ pc = "exec_wait"
  /\ \E end \in {"zero", "nonzero", "timeout"}, wrote \in SessionWrites :
       /\ invocation' = [invocation EXCEPT !["exec"] = "ended"]
       /\ outcome' = [outcome EXCEPT !["exec"] = end]
       /\ fs' = fs \cup wrote
       /\ Return("Execution", ExecutionPasses(end))
  /\ UNCHANGED <<config, environ, server, port, attempt, polling, checks, killCalls, started,
                 verification, queried, cleanupRuns, cleanupLog, cleanupFault>>
  /\ UNCHANGED <<peerVars, scriptVars>>

(***************************************************************************)
(* Phase 5: verify_results (lines 566-679).                                *)
(***************************************************************************)

Categories == {"datasets", "scorers", "traces"}

\* The order in which the script makes its three queries (lines 589-614).
QueryOrder == <<"datasets", "traces", "scorers">>

\* What one query meets: it raises, or it returns count records.  For scorers the
\* count is the number of lines of 'mlflow scorers list' the script keeps
\* (lines 609-611).
QueryAnswers ==
  {[raised |-> TRUE, count |-> 0]} \cup {[raised |-> FALSE, count |-> n] : n \in 0..MaxCount}

\* The verification script (lines 583-616): each query in its own try block; n is
\* the number of records the store returns, failed whether the query raised.
CategoryResult(n, failed) ==
  IF failed THEN [found |-> 0, pass |-> FALSE] ELSE [found |-> n, pass |-> n >= 1]

\* Variant of ScriptResults: one try block around the three queries, so that the
\* first query that raises also ends the ones after it.
ScriptResults_SingleTry(count, failed) ==
  LET pos(c) == CHOOSE i \in 1..Len(QueryOrder) : QueryOrder[i] = c
  IN [c \in Categories |->
        CategoryResult(count[c], \E d \in failed : pos(d) <= pos(c))]

ScriptResults(count, failed) ==
  [c \in Categories |-> CategoryResult(count[c], c \in failed)]

\* Variant of all_pass: one passing category is enough.
all_pass_AnyCategory(results) ==
  \/ results["datasets"].pass
  \/ results["scorers"].pass
  \/ results["traces"].pass

\* Lines 646-679: the harness reads each category's pass flag.
all_pass(results) ==
  /\ results["datasets"].pass
  /\ results["scorers"].pass
  /\ results["traces"].pass

\* Lines 621-641: the script could not be run, printed nothing, or printed text
\* that is not JSON: verify_results returns False without any results.
verify_no_results ==
  /\ pc = "verify"
  /\ Enter("Verification")
  /\ \E how \in {"run_raises", "no_output", "not_json"} :
       /\ verification' = verification
       /\ queried' = queried
       /\ Return("Verification", FALSE)
  /\ UNCHANGED <<config, environ, fs, procVars, cleanupRuns, cleanupLog, cleanupFault>>
  /\ UNCHANGED <<peerVars, scriptVars>>

\* Lines 574-679: the script ran, asked the store its three questions and printed
\* its results dictionary.
verify_results ==
  /\ pc = "verify"
  /\ Enter("Verification")
  /\ \E answer \in [Categories -> QueryAnswers] :
       LET results == ScriptResults([c \in Categories |-> answer[c].count],
                                    {c \in Categories : answer[c].raised})
       IN /\ queried' = answer
          /\ verification' = [datasets |-> results["datasets"],
                              scorers |-> results["scorers"],
                              traces |-> results["traces"]]
          /\ Return("Verification", all_pass(results))
  /\ UNCHANGED <<config, environ, fs, procVars, cleanupRuns, cleanupLog, cleanupFault>>
  /\ UNCHANGED <<peerVars, scriptVars>>

(***************************************************************************)
(* cleanup (lines 144-197), called by atexit when the interpreter exits.   *)
(***************************************************************************)

\* Path.exists() of the working directory recorded in the Config (lines 149, 185).
WorkDirExists(c) == c.work_dir # None /\ c.work_dir \in fs

\* What the three steps of cleanup can do.
LogsStep == {"logs:none", "logs:copied", "logs:copy_failed", "logs:mkdir_raised"}

ServerStep == {"server:none", "server:gone", "server:signalled"}

WorkdirStep == {"workdir:absent", "workdir:kept", "workdir:removed", "workdir:rmtree_raised"}

\* Variant of AfterLogs: the working directory is dealt with right after the logs.
AfterLogs_WorkdirFirst == "cleanup_rm"

\* The step of cleanup that follows the copy of the session logs: the
\* termination of the server (lines 168-182), which in turn is followed by the
\* working-directory step (lines 184-197).
AfterLogs == "cleanup_stop"

\* How the copy of the session logs can go.  mkdir(exist_ok=True) returns at once
\* when the directory is already there, and can raise when it has to create it.
CopyOutcomes ==
  IF SessionDestDir \in fs
    THEN {"logs:copied", "logs:copy_failed"}
    ELSE {"logs:copied", "logs:copy_failed", "logs:mkdir_raised"}

\* Lines 148-166: the session logs are copied into the working directory.  The
\* destination's mkdir (line 157) is outside the try block; a failing copy is
\* caught and logged (lines 158-166).
cleanup_copy_logs ==
  /\ pc = "atexit"
  /\ cleanupRuns' = cleanupRuns + 1
  /\ IF WorkDirExists(config) /\ SessionDir \in fs
       THEN \E how \in CopyOutcomes :
              /\ cleanupLog' = Append(cleanupLog, how)
              /\ IF how = "logs:mkdir_raised"
                   THEN /\ fs' = fs
                        /\ pc' = "exited"
                        /\ cleanupFault' = TRUE
                   ELSE /\ fs' = fs \cup {SessionDestDir}
                        /\ pc' = AfterLogs
                        /\ cleanupFault' = cleanupFault
       ELSE /\ cleanupLog' = Append(cleanupLog, "logs:none")
            /\ fs' = fs
            /\ pc' = AfterLogs
            /\ cleanupFault' = cleanupFault
  /\ UNCHANGED <<config, environ, procVars, started, phaseResult, verification, queried,
                 exitCode>>
  /\ UNCHANGED <<peerVars, scriptVars>>

\* Variant of ShouldStopServer: the external-server flag is tested the wrong way.
ShouldStopServer_FlagInverted(c) == c.mlflow_server_pid # None \/ c.use_external_server

\* Line 169: the guard of the termination step.
ShouldStopServer(c) == c.mlflow_server_pid # None /\ ~c.use_external_server

\* os.kill raises OSError when no process has the pid; a child that has exited
\* but was not reaped still has it.
KillRaises ==
  CASE server \in {"starting", "serving"} -> {FALSE}
    [] server = "exited" -> BOOLEAN
    [] OTHER -> {TRUE}

\* Lines 168-172, 181-182: SIGTERM is sent; an OSError skips the wait.
cleanup_stop_server ==
  /\ pc = "cleanup_stop"
  /\ IF ShouldStopServer(config)
       THEN /\ killCalls' = Append(killCalls, <<config.mlflow_server_pid, "SIGTERM">>)
            /\ checks' = 0
            /\ \E raises \in KillRaises :
                 /\ pc' = IF raises THEN "cleanup_rm" ELSE "cleanup_wait"
                 /\ cleanupLog' = Append(cleanupLog, IF raises THEN "server:gone"
                                                               ELSE "server:signalled")
       ELSE /\ UNCHANGED <<killCalls, checks>>
            /\ cleanupLog' = Append(cleanupLog, "server:none")
            /\ pc' = "cleanup_rm"
  /\ UNCHANGED <<config, environ, fs, server, port, attempt, polling, invocation, outcome,
                 started, phaseResult, verification, queried, exitCode, cleanupRuns,
                 cleanupFault>>
  /\ UNCHANGED <<peerVars, scriptVars>>

\* Variant of WaitOver: the wait ends after its first check.
WaitOver_NoLoop(raises, n) == TRUE

\* Variant of WaitOver: the wait goes on until the process is gone.
WaitOver_NoCeiling(raises, n) == raises

\* Lines 174-179: the wait loop ends when the liveness check raises OSError or
\* when the n-th check was the last of range(10).
WaitOver(raises, n) == raises \/ n = term_checks

\* Lines 174-180: one iteration of the wait loop: signal 0 probes the process; an
\* OSError leaves the loop, otherwise it sleeps; after term_checks iterations the
\* loop ends.  Either way "MLflow server stopped" is logged (line 180) and cleanup
\* goes on.
cleanup_wait ==
  /\ pc = "cleanup_wait"
  /\ checks' = checks + 1
  /\ killCalls' = Append(killCalls, <<config.mlflow_server_pid, "0">>)
  /\ \E raises \in KillRaises :
       IF WaitOver(raises, checks + 1)
         THEN /\ pc' = "cleanup_rm"
              /\ cleanupLog' = Append(cleanupLog, "server:stopped")
         ELSE UNCHANGED <<pc, cleanupLog>>
  /\ UNCHANGED <<config, environ, fs, server, port, attempt, polling, invocation, outcome,
                 started, phaseResult, verification, queried, exitCode, cleanupRuns,
                 cleanupFault>>
  /\ UNCHANGED <<peerVars, scriptVars>>

\* Variant of RemovesWorkDir: the flag is not looked at.
RemovesWorkDir_Always(c) == TRUE

\* Line 186: an existing working directory is removed unless keep_workdir is set.
RemovesWorkDir(c) == ~c.keep_workdir

\* Lines 184-197: the working directory is removed unless it is to be kept;
\* shutil.rmtree is not guarded.
cleanup_workdir ==
  /\ pc = "cleanup_rm"
  /\ pc' = "exited"
  /\ IF WorkDirExists(config)
       THEN IF RemovesWorkDir(config)
         THEN \E rmtree \in {"ok", "raises"} :
                IF rmtree = "ok"
                  THEN /\ fs' = fs \ UnderWorkDir
                       /\ cleanupFault' = cleanupFault
                       /\ cleanupLog' = Append(cleanupLog, "workdir:removed")
                  ELSE /\ fs' = fs
                       /\ cleanupFault' = TRUE
                       /\ cleanupLog' = Append(cleanupLog, "workdir:rmtree_raised")
         ELSE /\ UNCHANGED <<fs, cleanupFault>>
              /\ cleanupLog' = Append(cleanupLog, "workdir:kept")
       ELSE /\ UNCHANGED <<fs, cleanupFault>>
            /\ cleanupLog' = Append(cleanupLog, "workdir:absent")
  /\ UNCHANGED <<config, environ, procVars, started, phaseResult, verification, queried,
                 exitCode, cleanupRuns>>
  /\ UNCHANGED <<peerVars, scriptVars>>

(***************************************************************************)
(* Another harness run working against the same tracking store.            *)
(***************************************************************************)

\* A second passes.
Tick ==
  /\ pc # "exited"
  /\ clock < MaxClock
  /\ clock' = clock + 1
  /\ UNCHANGED <<pc, config, environ, fs, procVars, started, phaseResult, verification,
                 queried, exitCode, cleanupRuns, cleanupLog, cleanupFault, peerName, signalled,
                 firstLeft, scriptVars>>

\* Another harness run that was given the same tracking URI, hence uses the same
\* store and workspace user, reaches lines 403-425 of its setup_phase and names its
\* experiment.
peer_setup_experiment ==
  /\ pc # "exited"
  /\ Truthy(config.tracking_uri)
  /\ peerName = None
  /\ peerName' = ExperimentName(IsDatabricksUri(config.tracking_uri), clock)
  /\ UNCHANGED <<pc, config, environ, fs, procVars, started, phaseResult, verification,
                 queried, exitCode, cleanupRuns, cleanupLog, cleanupFault, clock, signalled,
                 firstLeft, scriptVars>>

(***************************************************************************)
(* Termination of the harness process from outside.                        *)
(***************************************************************************)

Signals == {"SIGINT", "SIGTERM", "SIGKILL"}

\* Whether the interpreter runs its atexit handlers when signal sig ends it.  main()
\* only calls atexit.register (lines 750-751) and installs no signal handler:
\* SIGINT becomes a KeyboardInterrupt, which no 'except Exception' of the harness
\* catches and which ends the interpreter the ordinary way; SIGTERM and SIGKILL
\* end the process at once.
RunsAtExit(sig) == sig = "SIGINT"

\* A signal is delivered to the harness process while main() is in a phase.
external_signal ==
  /\ exitCode = {}
  /\ signalled = None
  /\ \E sig \in Signals :
       /\ signalled' = sig
       /\ pc' = IF RunsAtExit(sig) THEN "atexit" ELSE "exited"
  /\ UNCHANGED <<config, environ, fs, procVars, started, phaseResult, verification,
                 queried, exitCode, cleanupRuns, cleanupLog, cleanupFault, clock, peerName,
                 firstLeft, scriptVars>>

(***************************************************************************)
(* cleanup called once more with the same Config.                          *)
(***************************************************************************)

\* cleanup(config) is invoked a second time after the first call has returned;
\* the filesystem and the number of os.kill calls it starts from are noted.
cleanup_again ==
  /\ pc = "exited"
  /\ cleanupRuns = 1
  /\ ~cleanupFault
  /\ signalled = None
  /\ pc' = "atexit"
  /\ firstLeft' = [fs |-> fs, kills |-> Len(killCalls)]
  /\ UNCHANGED <<config, environ, fs, procVars, started, phaseResult, verification,
                 queried, exitCode, cleanupRuns, cleanupLog, cleanupFault, clock, peerName,
                 signalled, scriptVars>>

Next ==
  \/ check_prerequisites
  \/ setup_workdir
  \/ setup_install
  \/ setup_external_server
  \/ start_mlflow_server
  \/ health_poll
  \/ setup_experiment
  \/ smoke_start
  \/ smoke_wait
  \/ exec_start
  \/ exec_wait
  \/ verify_no_results
  \/ verify_results
  \/ cleanup_copy_logs
  \/ cleanup_stop_server
  \/ cleanup_wait
  \/ cleanup_workdir
  \/ ServerBinds
  \/ ServerExits
  \/ OtherTakesPort

Spec == Init /\ [][Next]_vars

\* The run together with the clock and a parallel run on the same store.
NextParallel ==
  \/ Next
  \/ Tick
  \/ peer_setup_experiment

SpecParallel == Init /\ [][NextParallel]_vars

\* The run when it can be ended from outside by a signal.
NextSignal ==
  \/ Next
  \/ external_signal

SpecSignal == Init /\ [][NextSignal]_vars

\* The run followed by a second call of cleanup.
NextTwice ==
  \/ Next
  \/ cleanup_again

SpecTwice == Init /\ [][NextTwice]_vars

(***************************************************************************)
(* check_import_order applied to a file.                                   *)
(***************************************************************************)

\* The harness at rest: a local-server run that has not started its first phase.
HarnessIdle ==
  /\ HarnessInit
  /\ config = NewConfig(None, FALSE)
  /\ environ = [MLFLOW_TRACKING_URI |-> None, MLFLOW_EXPERIMENT_ID |-> None]
  /\ port = "free"

InitImportOrder ==
  /\ HarnessIdle
  /\ \E f \in Files, p \in ImportPatterns, readable \in BOOLEAN :
       /\ ~readable => Len(f) = 1
       /\ importCheck = [lines |-> f, import_pattern |-> p, readable |-> readable,
                         called |-> FALSE, returned |-> NotReturned]
  /\ uriSetup = NoUriSetup

CallCheckImportOrder ==
  /\ ~importCheck.called
  /\ importCheck' =
       [importCheck EXCEPT
          !.called = TRUE,
          !.returned = check_import_order(importCheck.lines, importCheck.import_pattern,
                                          importCheck.readable)]
  /\ UNCHANGED <<pc, config, environ, fs, procVars, started, phaseResult, verification,
                 queried, exitCode, cleanupRuns, cleanupLog, cleanupFault, peerVars,
                 uriSetup>>

NextImportOrder == CallCheckImportOrder

SpecImportOrder == InitImportOrder /\ [][NextImportOrder]_vars

(***************************************************************************)
(* configure_tracking_uri applied to a command line and an environment.    *)
(***************************************************************************)

InitTrackingUri ==
  /\ HarnessIdle
  /\ importCheck = NoImportCheck
  /\ \E a \in ArgsUris, e \in EnvUris, c \in CliOutcomes :
       uriSetup = [args_uri |-> a, existing |-> e, cli |-> c, called |-> FALSE,
                   returned |-> None]

CallConfigureTrackingUri ==
  /\ ~uriSetup.called
  /\ uriSetup' =
       [uriSetup EXCEPT
          !.called = TRUE,
          !.returned = configure_tracking_uri(uriSetup.args_uri, uriSetup.existing,
                                              uriSetup.cli)]
  /\ UNCHANGED <<pc, config, environ, fs, procVars, started, phaseResult, verification,
                 queried, exitCode, cleanupRuns, cleanupLog, cleanupFault, peerVars,
                 importCheck>>

NextTrackingUri == CallConfigureTrackingUri

SpecTrackingUri == InitTrackingUri /\ [][NextTrackingUri]_vars

(***************************************************************************)
(* Properties.                                                             *)
(***************************************************************************)

\* Phase p did not return success: it returned False or was left by an exception.
Failed(p) == phaseResult[p] \in {"fail", "raised"}

\* p is the first phase to fail: every earlier phase passed.
FirstToFail(p) ==
  /\ Failed(p)
  /\ \A i \in 1..(PhaseIndex(p) - 1) : phaseResult[PhaseOrder[i]] = "pass"

AllPassed == \A p \in Phases : phaseResult[p] = "pass"

Exited == pc = "exited"

ServerRunning == server \in {"starting", "serving"}

SigtermSent == \E i \in 1..Len(killCalls) : killCalls[i] = <<ServerPid, "SIGTERM">>

\* C1: once main() has returned, the exit code identifies the first failing
\* phase: 0 iff all five phases passed, 1 iff Prerequisites, Setup or Smoke Test
\* is the first phase to fail, 2 iff Execution is, 3 iff Verification failed.
C1_ExitCodeIdentifiesPhase ==
  exitCode # {} =>
    \E code \in 0..3 :
      /\ exitCode = {code}
      /\ (code = 0) <=> AllPassed
      /\ (code = 1) <=> \E p \in {"Prerequisites", "Setup", "SmokeTest"} : FirstToFail(p)
      /\ (code = 2) <=> FirstToFail("Execution")
      /\ (code = 3) <=> FirstToFail("Verification")

C1_Witness ==
  /\ Exited
  /\ exitCode = {3}
  /\ phaseResult["Execution"] = "pass"
  /\ phaseResult["Verification"] = "fail"

\* C2: the phases start in the order Prerequisites, Setup, Smoke Test, Execution,
\* Verification, one at a time; a phase has started only if every earlier phase
\* returned success, so after a failure no later phase is ever started.
C2_PhasesInOrder ==
  /\ Len(started) <= Len(PhaseOrder)
  /\ \A i \in 1..Len(started) :
       /\ started[i] = PhaseOrder[i]
       /\ \A j \in 1..(i - 1) : phaseResult[PhaseOrder[j]] = "pass"
  /\ \A p \in Phases : Failed(p) => Len(started) = PhaseIndex(p)
  /\ \A p \in Phases : phaseResult[p] # "none" => PhaseIndex(p) <= Len(started)

C2_Witness ==
  /\ Exited
  /\ phaseResult["SmokeTest"] = "fail"
  /\ started = <<"Prerequisites", "Setup", "SmokeTest">>

\* C3: for every run outcome cleanup is called exactly once before the process
\* ends: never before main() is left, never twice, and the process has not ended
\* without it.
C3_CleanupExactlyOnce ==
  /\ cleanupRuns <= 1
  /\ cleanupRuns = 1 => exitCode # {}
  /\ Exited => cleanupRuns = 1

C3_Witness ==
  /\ Exited
  /\ phaseResult["Prerequisites"] = "fail"
  /\ fs = {}
  /\ cleanupRuns = 1

\* C4: cleanup never raises an unhandled fault, whatever Setup had created and
\* also when one of its own filesystem steps fails.
C4_CleanupNeverRaises == ~cleanupFault

\* C5: when use_external_server is true, no os.kill call is ever made.
C5_NoSignalWhenExternal == config.use_external_server => killCalls = <<>>

C5_Witness ==
  /\ Exited
  /\ config.use_external_server
  /\ phaseResult["Setup"] = "pass"
  /\ cleanupRuns = 1
  /\ ~cleanupFault

\* C6: in every state after setup_phase has returned success, exactly one of
\* "mlflow_server_pid is set" and "use_external_server is true" holds.
C6_ExactlyOneServerMode ==
  phaseResult["Setup"] = "pass" =>
    ((config.mlflow_server_pid # None) <=> ~config.use_external_server)

C6_Witness ==
  /\ phaseResult["Setup"] = "pass"
  /\ config.mlflow_server_pid = ServerPid
  /\ ~config.use_external_server

\* C7: when the Execution invocation ends with a non-zero exit code,
\* run_claude_code reports failure, Verification is never started and the exit
\* code is 2.
C7_NonZeroExitFailsExecution ==
  outcome["exec"] = "nonzero" =>
    /\ phaseResult["Execution"] = "fail"
    /\ \A i \in 1..Len(started) : started[i] # "Verification"
    /\ pc # "verify"
    /\ exitCode = {EXIT_EXECUTION_FAILED}

C7_Witness ==
  /\ Exited
  /\ outcome["exec"] = "nonzero"
  /\ exitCode = {2}

\* C8: when the Execution invocation times out, the Execution phase passes,
\* Verification is started next, and the exit code is decided by Verification
\* alone: 0 if it passes, 3 if it fails.
C8_TimeoutProceedsToVerification ==
  outcome["exec"] = "timeout" =>
    /\ phaseResult["Execution"] = "pass"
    /\ pc = "verify" \/ (Len(started) = 5 /\ started[5] = "Verification")
    /\ exitCode # {} =>
         \/ exitCode = {EXIT_SUCCESS} /\ phaseResult["Verification"] = "pass"
         \/ exitCode = {EXIT_VERIFICATION_FAILED} /\ phaseResult["Verification"] = "fail"

C8_Witness ==
  /\ Exited
  /\ outcome["exec"] = "timeout"
  /\ exitCode = {0}

\* C9: whenever the run spawned a local server, cleanup has sent that server a
\* SIGTERM by the time the process ends, whichever phase failed and on success.
C9_SpawnedServerIsSignalled ==
  (Exited /\ config.mlflow_server_pid # None) => SigtermSent

\* C10 as stated: when the process ends after cleanup has run (to its end), no
\* process spawned by the run is still running.
C10_NoProcessLeftRunning ==
  (Exited /\ cleanupRuns = 1 /\ ~cleanupFault) =>
    (~ServerRunning /\ \A i \in DOMAIN invocation : invocation[i] # "running")

\* C10, amended: when the process ends, neither claude invocation is still
\* running; the spawned server can still be running, but if cleanup signalled it,
\* only after all term_checks liveness checks found it alive.
C10_OnlyServerMayOutliveBoundedWait ==
  Exited =>
    /\ \A i \in DOMAIN invocation : invocation[i] # "running"
    /\ (ServerRunning /\ SigtermSent) =>
         /\ checks = term_checks
         /\ Len(killCalls) = term_checks + 1

C10_Witness ==
  /\ Exited
  /\ ServerRunning
  /\ SigtermSent
  /\ invocation["exec"] = "ended"

\* The k-th probe of the polling loop is the first one that succeeded.
FirstHealthy(k) ==
  /\ k \in 1..Len(polling.probes)
  /\ polling.probes[k].healthy
  /\ \A j \in 1..(k - 1) : ~polling.probes[j].healthy

\* The k-th probe of the polling loop is the first one made after the spawned
\* process had exited.
FirstAfterExit(k) ==
  /\ k \in 1..Len(polling.probes)
  /\ polling.probes[k].exited
  /\ \A j \in 1..(k - 1) : ~polling.probes[j].exited

\* C11: if the server first answers the health probe on attempt k
\* (1 <= k <= max_attempts) and its process had not exited before then,
\* start_mlflow_server makes exactly k probes and returns success: the local
\* tracking URI is exported and setup_phase goes on to the experiment.
C11_ReadyAfterExactlyKProbes ==
  \A k \in 1..max_attempts :
    (FirstHealthy(k) /\ \A j \in 1..k : ~polling.probes[j].exited) =>
      /\ Len(polling.probes) = k
      /\ attempt = k
      /\ polling.result = "ready"
      /\ pc = "setup_experiment"
      /\ phaseResult["Setup"] = "none"
      /\ environ.MLFLOW_TRACKING_URI = LocalUri

C11_Witness ==
  /\ FirstHealthy(3)
  /\ polling.result = "ready"
  /\ server = "serving"
  /\ port = "ours"

\* C12: if the spawned server process exits before the attempt ceiling is
\* reached, polling stops at the first attempt that follows the exit and
\* start_mlflow_server returns failure before using up all max_attempts attempts.
C12_ExitStopsPollingWithFailure ==
  \A k \in 1..(max_attempts - 1) :
    FirstAfterExit(k) =>
      /\ Len(polling.probes) = k
      /\ polling.result = "died"
      /\ phaseResult["Setup"] = "fail"

\* C13: Verification passes iff each of the three categories has a count of at
\* least 1, and each category's pass flag is decided by its own count alone; so
\* counts of 2 datasets, 0 scorers and 1 trace give the flags true, false, true
\* and a failed Verification.
C13_PassIffEveryCategoryCounted ==
  phaseResult["Verification"] \in {"pass", "fail"} =>
    /\ \A c \in Categories : verification[c].pass <=> verification[c].found >= 1
    /\ phaseResult["Verification"] = "pass" <=>
         \A c \in Categories : verification[c].found >= 1
    /\ ( /\ verification["datasets"].found = 2
         /\ verification["scorers"].found = 0
         /\ verification["traces"].found = 1 ) =>
           /\ verification["datasets"].pass
           /\ ~verification["scorers"].pass
           /\ verification["traces"].pass
           /\ phaseResult["Verification"] = "fail"

C13_Witness ==
  /\ Exited
  /\ verification["datasets"] = [found |-> 2, pass |-> TRUE]
  /\ verification["scorers"] = [found |-> 0, pass |-> FALSE]
  /\ verification["traces"] = [found |-> 1, pass |-> TRUE]
  /\ \A c \in Categories : ~queried[c].raised
  /\ phaseResult["Verification"] = "fail"
  /\ exitCode = {EXIT_VERIFICATION_FAILED}

\* C14: a query of the verification script that fails yields count 0 and
\* pass=false for its own category only; each other query is still made, and its
\* count and pass flag are what the store answered to it, whatever happened to
\* the other two queries.
C14_QueriesFailIndependently ==
  \A c \in Categories :
    /\ queried[c].raised => verification[c] = [found |-> 0, pass |-> FALSE]
    /\ ~queried[c].raised =>
         /\ verification[c].found = queried[c].count
         /\ verification[c].pass <=> queried[c].count >= 1

C14_Witness ==
  /\ Exited
  /\ queried["datasets"].raised
  /\ queried["traces"] = [raised |-> FALSE, count |-> 1]
  /\ queried["scorers"] = [raised |-> FALSE, count |-> 2]
  /\ verification["datasets"] = [found |-> 0, pass |-> FALSE]
  /\ verification["traces"] = [found |-> 1, pass |-> TRUE]
  /\ verification["scorers"] = [found |-> 2, pass |-> TRUE]
  /\ phaseResult["Verification"] = "fail"

\* C15: two harness runs executing in parallel against the same tracking store
\* never produce the same experiment name.
C15_ParallelRunsNamesDiffer ==
  (config.experiment_name # None /\ peerName # None) => config.experiment_name # peerName

\* C16: if the whole run is ended by an external process signal at any point
\* after the cleanup handler is registered, during any phase, cleanup is still
\* executed before the process ends.
C16_CleanupRunsAfterSignal ==
  (Exited /\ signalled # None) => cleanupRuns = 1

\* Cleanup has made a step with one of the given outcomes.
Did(outcomes) == \E i \in 1..Len(cleanupLog) : cleanupLog[i] \in outcomes

\* Calls of os.kill with the given signal so far.
KillCount(sig) == Cardinality({i \in 1..Len(killCalls) : killCalls[i][2] = sig})

\* C17: a failure of the log-copying step of cleanup, at any point of that step
\* (creating the destination directory included), is suppressed: cleanup still
\* makes the server-termination step and the working-directory step, and the exit
\* code stays the one main() decided.
C17_CopyFailureDoesNotStopCleanup ==
  (Exited /\ Did({"logs:copy_failed", "logs:mkdir_raised"})) =>
    /\ Did(ServerStep)
    /\ Did(WorkdirStep)
    /\ ~cleanupFault
    /\ exitCode # {}

\* C18: the termination of the server in cleanup is bounded and never
\* escalates: at most one SIGTERM, at most term_checks liveness checks, no other
\* signal; and once SIGTERM was delivered cleanup reports the server as stopped
\* and goes on to the working-directory step, whether the checks saw the process
\* gone or still found it alive after the last one.
C18_BoundedTerminationNoEscalation ==
  /\ KillCount("SIGTERM") <= 1
  /\ KillCount("0") <= term_checks
  /\ checks <= term_checks
  /\ \A i \in 1..Len(killCalls) : killCalls[i] \in {<<ServerPid, "SIGTERM">>, <<ServerPid, "0">>}
  /\ KillCount("0") > 0 => killCalls[1] = <<ServerPid, "SIGTERM">>
  /\ (pc \in {"cleanup_rm", "exited"} /\ Did({"server:signalled"})) =>
       Did({"server:stopped"})
  /\ (Exited /\ SigtermSent) => Did(WorkdirStep)

C18_Witness ==
  /\ Exited
  /\ ServerRunning
  /\ KillCount("SIGTERM") = 1
  /\ KillCount("0") = term_checks
  /\ Did({"server:stopped"})
  /\ Did({"workdir:removed"})

\* The other case of C18: a liveness check found the process gone.
C18_WitnessObservedExit ==
  /\ Exited
  /\ server = "exited"
  /\ KillCount("0") = 3
  /\ Did({"server:stopped"})
  /\ Did(WorkdirStep)

\* No probe made so far was answered, and the process was running at each.
NeverAnswered ==
  \A j \in 1..Len(polling.probes) :
    ~polling.probes[j].healthy /\ ~polling.probes[j].exited

\* C19: health polling always ends: the loop never makes more than max_attempts
\* probes, and when the server never answers while its process keeps running,
\* start_mlflow_server makes exactly max_attempts probes and then returns
\* failure, so that Setup fails and the run exits with code 1.
C19_PollingEndsAtCeiling ==
  /\ attempt <= max_attempts
  /\ Len(polling.probes) <= max_attempts
  /\ pc = "health_poll" => (attempt < max_attempts /\ polling.result = "polling")
  /\ polling.result = "polling" => pc = "health_poll"
  /\ (NeverAnswered /\ polling.result \in {"polling", "timeout"}) =>
       (polling.result = "timeout" <=> Len(polling.probes) = max_attempts)
  /\ polling.result = "timeout" =>
       /\ NeverAnswered
       /\ attempt = max_attempts
       /\ phaseResult["Setup"] = "fail"
       /\ \A i \in 1..Len(started) : started[i] \in {"Prerequisites", "Setup"}
       /\ exitCode = {EXIT_SETUP_FAILED}

C19_Witness ==
  /\ Exited
  /\ polling.result = "timeout"
  /\ Len(polling.probes) = max_attempts
  /\ NeverAnswered
  /\ exitCode = {1}

\* The ways the smoke invocation ends that test_claude_headless reports as failure.
SmokeFailures == {"timeout", "nostart", "empty", "error_output"}

\* C20: a Smoke Test failure of any kind (timeout, failure to start, empty
\* output, error output) makes the run exit with code 1, and Execution is never
\* started; a timeout of the smoke invocation is a failure.
C20_SmokeFailureExitsWithoutExecution ==
  /\ outcome["smoke"] \in SmokeFailures => phaseResult["SmokeTest"] = "fail"
  /\ phaseResult["SmokeTest"] = "fail" =>
       /\ outcome["smoke"] \in SmokeFailures
       /\ exitCode = {EXIT_SETUP_FAILED}
       /\ \A i \in 1..Len(started) : started[i] # "Execution"
       /\ invocation["exec"] = "none"
       /\ pc \notin {"exec_start", "exec_wait", "verify"}

C20_Witness ==
  /\ Exited
  /\ outcome["smoke"] = "timeout"
  /\ invocation["smoke"] = "ended"
  /\ invocation["exec"] = "none"
  /\ exitCode = {1}

\* Setup is the phase in progress.
InSetup == Len(started) = 2 /\ phaseResult["Setup"] = "none"

\* The tracking endpoint Setup resolves: the configured one, or the local server's.
ResolvedUri == IF config.use_external_server THEN config.tracking_uri ELSE LocalUri

\* C21: MLFLOW_TRACKING_URI and MLFLOW_EXPERIMENT_ID are exported during Setup
\* only: once Setup has passed (hence whenever Smoke Test, Execution or
\* Verification starts) both are set, the first to the resolved endpoint and the
\* second to config.experiment_id; and every write of either variable happens
\* while Setup is in progress, none in a later phase nor in cleanup.
C21_EnvExportedInSetupOnly ==
  /\ [](phaseResult["Setup"] = "pass" =>
          /\ Truthy(environ.MLFLOW_TRACKING_URI)
          /\ Truthy(environ.MLFLOW_EXPERIMENT_ID)
          /\ environ.MLFLOW_TRACKING_URI = ResolvedUri
          /\ environ.MLFLOW_EXPERIMENT_ID = config.experiment_id)
  /\ [][environ' # environ => InSetup]_vars

C21_Witness ==
  /\ pc = "verify"
  /\ started = <<"Prerequisites", "Setup", "SmokeTest", "Execution">>
  /\ ~config.use_external_server
  /\ environ = [MLFLOW_TRACKING_URI |-> LocalUri, MLFLOW_EXPERIMENT_ID |-> "42"]
  /\ config.experiment_id = "42"

\* C22: experiment_name and experiment_id are each assigned at most once per run
\* and only while Setup is in progress (a write finds the field unset); Smoke
\* Test, Execution, Verification and cleanup never modify them; and they are
\* unset until Setup reaches the assignment, so they stay unset when Setup fails
\* before it.
C22_ExperimentFieldsAssignedOnce ==
  /\ [][config'.experiment_name # config.experiment_name =>
          (InSetup /\ config.experiment_name = None)]_vars
  /\ [][config'.experiment_id # config.experiment_id =>
          (InSetup /\ config.experiment_id = None)]_vars
  /\ []((\/ Len(started) < 2
         \/ pc \in {"setup_install", "setup_server", "health_poll", "setup_experiment"}
         \/ polling.result \in {"died", "timeout"}) =>
          (config.experiment_name = None /\ config.experiment_id = None))
  /\ [](config.experiment_id # None => config.experiment_name # None)

C22_Witness ==
  /\ Exited
  /\ Len(started) = 5
  /\ config.experiment_name = BaseExperimentName(0)
  /\ config.experiment_id = "42"
  /\ config.log_file = ClaudeOutputLog

\* Setup failed before the assignment: the fields are still unset at the end.
C22_WitnessUnset ==
  /\ Exited
  /\ phaseResult["Setup"] = "fail"
  /\ polling.result = "died"
  /\ config.experiment_name = None
  /\ config.experiment_id = None

\* C23: check_prerequisites changes no field of the Config other than
\* use_external_server, which it sets to true only when a tracking URI is
\* configured; this holds when it passes and when it fails.
C23_PrerequisitesOnlyMarksExternal ==
  [][pc = "check_prerequisites" =>
       /\ \A f \in DOMAIN config \ {"use_external_server"} : config'[f] = config[f]
       /\ config'.use_external_server # config.use_external_server =>
            /\ config'.use_external_server
            /\ config.tracking_uri \notin {None, ""}]_vars

C23_Witness ==
  /\ pc = "setup_workdir"
  /\ phaseResult["Prerequisites"] = "pass"
  /\ config = [NewConfig(ExternalHttp, TRUE) EXCEPT !.use_external_server = TRUE]

\* A failing path: the commands are missing although a tracking URI is configured.
C23_WitnessFailingPath ==
  /\ pc = "atexit"
  /\ phaseResult["Prerequisites"] = "fail"
  /\ config = NewConfig(ExternalHttp, TRUE)

\* Path p lies below directory d.
LiesUnder(p, d) == Len(p) > Len(d) /\ SubSeq(p, 1, Len(d) + 1) = d \o "/"

\* C24 as stated: the working directory is created before any other side effect
\* of the run, and every filesystem location the run creates or writes lies
\* under it.
C24_EverythingUnderWorkDir ==
  /\ config.work_dir = None => fs = {}
  /\ \A p \in fs : p = WorkDir \/ LiesUnder(p, WorkDir)

\* C24, amended: before the working directory is created the run has created
\* nothing but its parent <repo>/test-runs; every other location the run creates
\* or writes lies under the working directory, except the session logs, which the
\* claude invocations write under ~/.claude/projects.
C24_UnderWorkDirButParentAndSessions ==
  /\ config.work_dir = None => fs \subseteq {TestRunsDir}
  /\ config.work_dir # None => (config.work_dir = WorkDir /\ TestRunsDir \in fs)
  /\ LiesUnder(WorkDir, TestRunsDir)
  /\ \A p \in fs \ {TestRunsDir, SessionDir} : p = WorkDir \/ LiesUnder(p, WorkDir)
  /\ SessionDir \in fs => invocation["smoke"] = "ended"

C24_Witness ==
  /\ pc = "verify"
  /\ fs = {TestRunsDir, WorkDir, ProjectDir, SkillInstallDir, MlflowDataDir, ServerLogFile,
           ClaudeOutputLog, SessionDir}

\* Cleanup ran to its end: its last step was made and no exception left it.
CleanupCompleted == Exited /\ Did(WorkdirStep) /\ ~cleanupFault

\* C25: after cleanup has completed in a run whose working directory was
\* created, the working directory exists iff keep_workdir is true, whatever the
\* outcome of the run: with the flag false it and everything under it is gone,
\* with the flag true it is still there with what Setup put into it.
C25_WorkDirKeptIffFlag ==
  (CleanupCompleted /\ config.work_dir # None) =>
    /\ WorkDir \in fs <=> config.keep_workdir
    /\ ~config.keep_workdir =>
         (fs \cap UnderWorkDir = {} /\ Did({"workdir:removed"}))
    /\ config.keep_workdir =>
         /\ Did({"workdir:kept"})
         /\ phaseResult["Setup"] = "pass" =>
              {ProjectDir, SkillInstallDir} \subseteq fs

C25_Witness ==
  /\ CleanupCompleted
  /\ ~config.keep_workdir
  /\ config.work_dir = WorkDir
  /\ WorkDir \notin fs
  /\ TestRunsDir \in fs
  /\ exitCode = {EXIT_SUCCESS}

\* The flag set, after a failed run.
C25_WitnessKept ==
  /\ CleanupCompleted
  /\ config.keep_workdir
  /\ {WorkDir, ClaudeOutputLog, SessionDestDir} \subseteq fs
  /\ exitCode = {EXIT_EXECUTION_FAILED}

\* The second call of cleanup has returned.
SecondCleanupReturned == Exited /\ cleanupRuns = 2 /\ ~cleanupFault

\* C26: cleanup is idempotent: a second call of cleanup(config) after a first
\* call has completed raises no fault and leaves the filesystem and the processes
\* as the first call left them: it creates and removes nothing, and a server that
\* is still running is not signalled once more.
C26_SecondCleanupChangesNothing ==
  /\ cleanupRuns = 2 => ~cleanupFault
  /\ SecondCleanupReturned =>
       /\ fs = firstLeft.fs
       /\ ServerRunning => Len(killCalls) = firstLeft.kills

\* What does hold of a second call: it raises no fault and leaves the filesystem
\* as the first call left it.
C26_SecondCleanupKeepsFiles ==
  /\ cleanupRuns = 2 => ~cleanupFault
  /\ SecondCleanupReturned => fs = firstLeft.fs

\* C27: in local-server mode, whenever start_mlflow_server reports the server
\* ready, the server that answered the probe on the configured port is the
\* process this run spawned, whose pid is recorded, and that process is running;
\* also when somebody else takes the port between the port check of
\* check_prerequisites and the start of the server.
C27_ReadyMeansOwnServerAnswers ==
  (polling.result = "ready" /\ polling.probes # <<>>) =>
    /\ config.mlflow_server_pid = ServerPid
    /\ polling.answeredBy = "ours"
    /\ ~polling.probes[Len(polling.probes)].exited

\* Without anybody else on the port, a ready report does come from the spawned
\* server.
C27_ReadyOnUncontendedPort ==
  (polling.result = "ready" /\ polling.probes # <<>> /\ polling.answeredBy # "other") =>
    /\ config.mlflow_server_pid = ServerPid
    /\ polling.answeredBy = "ours"
    /\ ~polling.probes[Len(polling.probes)].exited

\* C28: the steps of cleanup are ordered: the working-directory step is the last
\* one; the session logs have been dealt with (copied, when there are any) before
\* it, and so has the server: if it was signalled, the bounded wait has ended
\* before the working directory, which holds the server's data, is removed.
C28_CleanupStepsOrdered ==
  \A i \in 1..Len(cleanupLog) :
    cleanupLog[i] \in WorkdirStep =>
      /\ i = Len(cleanupLog)
      /\ \E j \in 1..(i - 1) : cleanupLog[j] \in LogsStep
      /\ \E j \in 1..(i - 1) : cleanupLog[j] \in ServerStep
      /\ \A j \in 1..(i - 1) :
           cleanupLog[j] = "server:signalled" =>
             \E k \in (j + 1)..(i - 1) : cleanupLog[k] = "server:stopped"
      /\ ShouldStopServer(config) =>
           (SigtermSent /\ killCalls[1] = <<ServerPid, "SIGTERM">>)

C28_Witness ==
  /\ Exited
  /\ cleanupLog = <<"logs:copied", "server:signalled", "server:stopped", "workdir:removed">>
  /\ Len(killCalls) = 4
  /\ WorkDir \notin fs

\* The lines of the checked file that contain an autolog() call, and those that
\* are a matching 'from ... import' line.
AutologLines == {i \in 1..Len(importCheck.lines) : importCheck.lines[i].autolog}
ImportLines ==
  {i \in 1..Len(importCheck.lines) :
     IsImport(importCheck.lines[i], importCheck.import_pattern)}

First(S) == CHOOSE i \in S : \A j \in S : i <= j

ImportOrderChecked == importCheck.called /\ importCheck.readable

\* C29: for a file with an autolog() call and a matching import line,
\* check_import_order returns is_correct = TRUE exactly when the autolog() line
\* comes before the import line, hence FALSE when the import line precedes the
\* call; and it returns FALSE when the file has no autolog() call.
C29_CorrectIffAutologBeforeImport ==
  ImportOrderChecked =>
    /\ (AutologLines # {} /\ ImportLines # {}) =>
         (importCheck.returned.is_correct <=> First(AutologLines) < First(ImportLines))
    /\ AutologLines = {} => ~importCheck.returned.is_correct

\* What check_import_order does establish: no autolog() call gives FALSE, and a
\* first import line that follows every autolog() call of the file gives TRUE.
C29_NoAutologRejected ==
  (ImportOrderChecked /\ AutologLines = {}) => ~importCheck.returned.is_correct

C29_AutologFirstAccepted ==
  (ImportOrderChecked /\ AutologLines # {} /\ ImportLines # {}
     /\ \A a \in AutologLines : a < First(ImportLines)) =>
    importCheck.returned.is_correct

\* The inputs of configure_tracking_uri as the caller sees them.
Given(v) == v # None /\ v # ""

ValidProfiles ==
  IF uriSetup.cli.status = "ok"
  THEN SelectSeq(uriSetup.cli.rows, LAMBDA r : r.valid = "YES")
  ELSE <<>>

HasValidDefault == \E i \in 1..Len(ValidProfiles) : ValidProfiles[i].name = "DEFAULT"

\* C30: configure_tracking_uri returns the URI of the command line if one is
\* given; otherwise the value of MLFLOW_TRACKING_URI if it is set; otherwise
\* databricks://DEFAULT if a valid DEFAULT profile exists; otherwise the first
\* valid profile; otherwise sqlite:///mlflow.db; and what it returns is not empty.
C30_TrackingUriByPriority ==
  uriSetup.called =>
    /\ uriSetup.returned =
         (IF Given(uriSetup.args_uri) THEN uriSetup.args_uri
          ELSE IF Given(uriSetup.existing) THEN uriSetup.existing
          ELSE IF HasValidDefault THEN "databricks://DEFAULT"
          ELSE IF ValidProfiles # <<>> THEN "databricks://" \o ValidProfiles[1].name
          ELSE "sqlite:///mlflow.db")
    /\ uriSetup.returned # ""
    /\ uriSetup.returned # None

C30_Witness ==
  /\ uriSetup.called
  /\ ~Given(uriSetup.args_uri)
  /\ uriSetup.existing = ""
  /\ Len(ValidProfiles) = 2
  /\ ValidProfiles[1].name = "dev"
  /\ ValidProfiles[2].name = "DEFAULT"
  /\ uriSetup.returned = "databricks://DEFAULT"

C30_WitnessFirstProfile ==
  /\ uriSetup.called
  /\ uriSetup.args_uri = None
  /\ uriSetup.existing = None
  /\ Len(uriSetup.cli.rows) = 2
  /\ uriSetup.cli.rows[1].valid = "NO"
  /\ uriSetup.cli.rows[2].name = "prod"
  /\ uriSetup.returned = "databricks://prod"

====
